---- MODULE Spec2Model ----
(***************************************************************************)
(* NuttyOwl: a Discord bot that keeps a store of daily UTC events          *)
(* (src/storage.py), pings a configured role through per-event countdown   *)
(* tasks (src/cogs/events.py) and through a 30-second polling loop         *)
(* (src/scheduler.py), both started from on_ready (src/bot.py).            *)
(*                                                                         *)
(* Time is counted in slots of 30 seconds (the cadence of the polling      *)
(* loop); an instant is a number of slots since 00:00:00 UTC of day 0.     *)
(* Strings that the code parses or formats (the HH:MM keys) are sequences  *)
(* of one-character strings, so that parsing and formatting are computed.  *)
(*                                                                         *)
(* The cog and the scheduler call the store as upsert / remove / all /     *)
(* clear / get_map; these are modelled by the Storage methods of           *)
(* src/storage.py that do that work on the events mapping (upsert_event,   *)
(* remove_event, all_events, clear_events, get_events_map).                *)
(***************************************************************************)
EXTENDS Integers, Sequences, FiniteSets, TLC

\* ------------------------------------------------------------------ bounds
\* Last UTC day the clock may enter (the clock starts on day 1).
MaxDay == 2
\* Operations the outside starts: on_ready invocations (the startup and the
\* reconnects) and commands (addevent, removeevent, clearevents, addrole,
\* removerole).
MaxOps == 2
\* Guilds the bot is a member of.
NumGuilds == 2

\* ------------------------------------------------------------- time units
\* asyncio.sleep(30): one slot.
SlotSeconds == 30
MinutesPerHour == 60
SlotsPerMinute == MinutesPerHour \div SlotSeconds
MinutesPerDay == 24 * MinutesPerHour
DaySlots == MinutesPerDay * SlotsPerMinute

\* timedelta(hours=1), timedelta(minutes=5), timedelta(minutes=0), in minutes.
DeltaHour == 60
DeltaFive == 5
DeltaZero == 0
Offsets == <<DeltaHour, DeltaFive, DeltaZero>>

DayOf(t) == t \div DaySlots
SlotOfDay(t) == t % DaySlots
MinuteOfDay(t) == SlotOfDay(t) \div SlotsPerMinute

\* ---------------------------------------------------------------- strings
Digits == <<"0", "1", "2", "3", "4", "5", "6", "7", "8", "9">>
Colon == ":"
Space == " "

IsDigit(c) == \E i \in 1..Len(Digits) : Digits[i] = c
DigitVal(c) == (CHOOSE i \in 1..Len(Digits) : Digits[i] = c) - 1
DigitChar(n) == Digits[n + 1]

\* Value of a run of one or two digits, -1 for anything else.
FieldVal(s) ==
    IF Len(s) = 1 /\ IsDigit(s[1]) THEN DigitVal(s[1])
    ELSE IF Len(s) = 2 /\ IsDigit(s[1]) /\ IsDigit(s[2])
         THEN 10 * DigitVal(s[1]) + DigitVal(s[2])
         ELSE -1

ColonAt(s) == {i \in 1..Len(s) : s[i] = Colon}

\* datetime.strptime(s, "%H:%M"): hour of one or two digits up to 23, a colon,
\* minute of one or two digits up to 59, nothing else; the minute of the day,
\* or -1 where strptime raises ValueError.
ParseHHMM(s) ==
    IF Cardinality(ColonAt(s)) # 1 THEN -1
    ELSE LET i == CHOOSE j \in ColonAt(s) : TRUE
             h == FieldVal(SubSeq(s, 1, i - 1))
             m == FieldVal(SubSeq(s, i + 1, Len(s)))
         IN  IF h >= 0 /\ h <= 23 /\ m >= 0 /\ m <= 59
             THEN h * MinutesPerHour + m
             ELSE -1

_validate_hhmm(s) == ParseHHMM(s) >= 0

\* strftime("%H:%M") of a minute of the day: two digits, colon, two digits.
FormatHHMM(m) ==
    LET h == m \div MinutesPerHour
        mi == m % MinutesPerHour
    IN  <<DigitChar(h \div 10), DigitChar(h % 10), Colon,
          DigitChar(mi \div 10), DigitChar(mi % 10)>>

_utc_now_hhmm(t) == FormatHHMM(MinuteOfDay(t))
_utc_midnight_key(t) == DayOf(t)

RECURSIVE LStrip(_)
LStrip(s) == IF s # <<>> /\ Head(s) = Space THEN LStrip(Tail(s)) ELSE s
RECURSIVE RStrip(_)
RStrip(s) ==
    IF s # <<>> /\ s[Len(s)] = Space THEN RStrip(SubSeq(s, 1, Len(s) - 1)) ELSE s
\* str.strip()
Strip(s) == RStrip(LStrip(s))

\* ----------------------------------------------------------------- inputs
T0900 == <<"0", "9", ":", "0", "0">>
T900 == <<"9", ":", "0", "0">>
T0000 == <<"0", "0", ":", "0", "0">>
T0004 == <<"0", "0", ":", "0", "4">>
T0030 == <<"0", "0", ":", "3", "0">>
T0059 == <<"0", "0", ":", "5", "9">>
T0100 == <<"0", "1", ":", "0", "0">>
T2359 == <<"2", "3", ":", "5", "9">>
T2400 == <<"2", "4", ":", "0", "0">>
\* Time arguments a user may type.
TimeInputs == {T0900, T900, T2400}
ValidTimes == {s \in TimeInputs : _validate_hhmm(s)}
\* Description arguments a user may type.
DescInputs == {<<"b", " ">>}
\* Role or member ids that !addrole may configure; 0 stands for "no role_id".
NoRole == 0
\* No ping() has run yet; no _tick has run yet.
NoPing == -1
NoTick == -1
RoleIds == {1, 2}
Guilds == 1..NumGuilds

\* ------------------------------------------------------------------ state
VARIABLES
    now,            \* the UTC clock, in slots
    events,         \* Storage._events: time_hhmm -> Event
    file,           \* the events file: [ok, map]; ok is FALSE for a file cut short
    roleId,         \* "role_id" of config_roles.json, NoRole when absent
    pinged,         \* the id that the last ping() read from the role configuration
    task,           \* UtcScheduler._task: "none", "sleeping", "firing" or "dead"
    last_midnight,  \* UtcScheduler._last_midnight
    tickedAt,       \* the instant at which _tick last read the clock
    ticked,         \* whether the loop has run its _tick for the current instant
    held,           \* the event a suspended _tick is delivering
    tasks,          \* the countdown tasks created so far, in creation order
    readyCount,     \* on_ready invocations so far
    ctxFound,       \* whether the last on_ready found a channel it can send to
    lastCmd,        \* the last command handled: its number, name and outcome, the
                    \* event a valid !addevent was given, what !listevents showed
    pollLog,        \* the last run of _fire_event
    storedOn        \* the UTC day on which each event was stored: of the events
                    \* in memory (mem) and of the records of the file (file)

vars == <<now, events, file, roleId, pinged, task, last_midnight, tickedAt, ticked, held, tasks,
          readyCount, ctxFound, lastCmd, pollLog, storedOn>>

\* -------------------------------------------------------------- the store
EmptyMap == [k \in {} |-> {}]
NoArg == <<>>
Event(time, role, desc) == [time_hhmm |-> time, role_id |-> role, description |-> desc]
NoEvent == Event(NoArg, NoRole, NoArg)

\* The keys of a mapping in the order in which json.dump writes its records.
RECURSIVE SeqOfKeys(_)
SeqOfKeys(S) ==
    IF S = {} THEN <<>>
    ELSE LET k == CHOOSE x \in S : TRUE IN <<k>> \o SeqOfKeys(S \ {k})

\* The events file: the records written to it (map), and whether the JSON
\* document was written to its end (ok). A write that raises leaves the file
\* cut short before its last record.
CutShort(evs) ==
    LET keys == SeqOfKeys(DOMAIN evs)
        kept == {keys[i] : i \in 1..(Len(keys) - 1)}
    IN  [k \in kept |-> evs[k]]

\* What Storage.save can do to the events file: write it ("ok"), or raise while
\* writing it, which leaves the file cut short ("partial").
SaveOutcomes == {"ok", "partial"}
SaveRaises(so) == so # "ok"
\* Variants of Save and of Load: a save that leaves the file as it was, and a
\* load that keeps the records it could read from a file that is cut short.
SaveKeepsFile(evs, fl, so) == fl
LoadLenient(fl) == fl.map

Save(evs, fl, so) ==
    IF so = "ok" THEN [ok |-> TRUE, map |-> evs] ELSE [ok |-> FALSE, map |-> CutShort(evs)]

\* Storage.load: the file's mapping, or {} when it cannot be deserialized.
Load(fl) == IF fl.ok THEN fl.map ELSE EmptyMap

\* A variant of Upsert that keeps the event a key already has.
UpsertIfAbsent(evs, e) ==
    [k \in DOMAIN evs \cup {e.time_hhmm} |-> IF k \in DOMAIN evs THEN evs[k] ELSE e]

\* self._events[event.time_hhmm] = event
Upsert(evs, e) ==
    [k \in DOMAIN evs \cup {e.time_hhmm} |-> IF k = e.time_hhmm THEN e ELSE evs[k]]
\* del self._events[hhmm] when present
Remove(evs, hhmm) == [k \in DOMAIN evs \ {hhmm} |-> evs[k]]

\* Storage.upsert_event, remove_event, clear_events: the mapping and the file
\* afterwards, whether the call raised, and what it returned.
StorageUpsert(evs, fl, e, so) ==
    [events |-> Upsert(evs, e), file |-> Save(Upsert(evs, e), fl, so),
     raised |-> SaveRaises(so), ret |-> FALSE]
\* A variant of StorageRemove that raises (KeyError) on a key that is absent.
StorageRemoveStrict(evs, fl, hhmm, so) ==
    IF hhmm \in DOMAIN evs
    THEN [events |-> Remove(evs, hhmm), file |-> Save(Remove(evs, hhmm), fl, so),
          raised |-> SaveRaises(so), ret |-> TRUE]
    ELSE [events |-> evs, file |-> fl, raised |-> TRUE, ret |-> FALSE]

StorageRemove(evs, fl, hhmm, so) ==
    IF hhmm \in DOMAIN evs
    THEN [events |-> Remove(evs, hhmm), file |-> Save(Remove(evs, hhmm), fl, so),
          raised |-> SaveRaises(so), ret |-> TRUE]
    ELSE [events |-> evs, file |-> fl, raised |-> FALSE, ret |-> FALSE]
StorageClear(evs, fl, so) ==
    [events |-> EmptyMap, file |-> Save(EmptyMap, fl, so),
     raised |-> SaveRaises(so), ret |-> FALSE]

\* Storage.all_events: the values, in one fixed order of the keys.
AllEvents(evs) == [i \in 1..Cardinality(DOMAIN evs) |-> evs[SeqOfKeys(DOMAIN evs)[i]]]

\* -------------------------------------------------------- countdown tasks
\* target_time of _schedule_ping, for a valid time string, at creation instant t.
BaseTime(time, delta, t) ==
    DayOf(t) * DaySlots + ParseHHMM(time) * SlotsPerMinute - delta * SlotsPerMinute
\* Variants of TargetTime: one rolls an instant equal to now, one never rolls.
TargetTimeOrEqual(time, delta, t) ==
    IF BaseTime(time, delta, t) <= t
    THEN BaseTime(time, delta, t) + DaySlots
    ELSE BaseTime(time, delta, t)
TargetTimeNoRoll(time, delta, t) == BaseTime(time, delta, t)
\* A variant of TargetTime that rolls the three instants of an event together,
\* when the event's own time is past.
TargetTimeWithEvent(time, delta, t) ==
    IF BaseTime(time, DeltaZero, t) < t
    THEN BaseTime(time, delta, t) + DaySlots
    ELSE BaseTime(time, delta, t)

TargetTime(time, delta, t) ==
    IF BaseTime(time, delta, t) < t
    THEN BaseTime(time, delta, t) + DaySlots
    ELSE BaseTime(time, delta, t)
\* seconds_until_ping
SecondsUntilPing(time, delta, t) == (TargetTime(time, delta, t) - t) * SlotSeconds

\* The task asyncio.create_task(self._schedule_ping(ctx, time, description, delta))
\* once it has reached its sleep (or returned on a time it cannot parse).
SchedulePing(time, desc, delta, t) ==
    IF ~_validate_hhmm(time)
    THEN [time |-> time, description |-> desc, delta |-> delta, target |-> t,
          status |-> "done"]
    ELSE [time |-> time, description |-> desc, delta |-> delta,
          target |-> TargetTime(time, delta, t), status |-> "sleeping"]

\* The three create_task calls made for one event.
ThreeTasks(time, desc, t) ==
    [i \in 1..Len(Offsets) |-> SchedulePing(time, desc, Offsets[i], t)]

\* A variant of RecreateTasks that leaves out the at-event-time task.
RECURSIVE RecreateTasksEarly(_, _)
RecreateTasksEarly(evList, t) ==
    IF evList = <<>> THEN <<>>
    ELSE SubSeq(ThreeTasks(Head(evList).time_hhmm, Head(evList).description, t),
                1, Len(Offsets) - 1)
         \o RecreateTasksEarly(Tail(evList), t)

\* recreate_tasks_for_existing_events: three tasks per stored event.
RECURSIVE RecreateTasks(_, _)
RecreateTasks(evList, t) ==
    IF evList = <<>> THEN <<>>
    ELSE ThreeTasks(Head(evList).time_hhmm, Head(evList).description, t)
         \o RecreateTasks(Tail(evList), t)

\* A variant of Due: the task runs only while its event is in the store.
DueStored(tk, t) ==
    tk.status = "sleeping" /\ tk.target <= t /\ tk.time \in DOMAIN events

\* asyncio.sleep(seconds_until_ping) is over: a wait of zero or less is over at once.
Due(tk, t) == tk.status = "sleeping" /\ tk.target <= t
DueTasks == {i \in 1..Len(tasks) : Due(tasks[i], now)}

\* ---------------------------------------------------------------- the clock
\* The clock visits the instants at which something can be due (a countdown
\* target, a stored key's minute, midnight) and one instant late in the day; at
\* every other instant a tick finds nothing to do.
DueSlots ==
    {(DaySlots + (ParseHHMM(s) - d) * SlotsPerMinute) % DaySlots :
        s \in ValidTimes, d \in {Offsets[i] : i \in 1..Len(Offsets)}}
LateSlots == {(23 * MinutesPerHour + 45) * SlotsPerMinute}
GridSlots == {0} \cup DueSlots \cup LateSlots
Grid == {d * DaySlots + s : d \in 1..MaxDay, s \in GridSlots}
FirstInstant == DaySlots
HasNext(t) == \E u \in Grid : u > t
NextInstant(t) == CHOOSE u \in Grid : u > t /\ \A v \in Grid : v > t => u <= v

\* ------------------------------------------------------------------- Init
NoCmd == [seq |-> 0, op |-> "none", result |-> "none", arg |-> NoEvent, shown |-> <<>>]
NoPoll == [time |-> NoArg, reached |-> {}, raised |-> FALSE]

\* The days of storing after a call of the store at instant now: upsert_event
\* stores the keys in up today, the other events keep their day, and a save
\* writes the days of the records it writes.
StampStore(evs2, fl2, up, saved) ==
    LET mem2 == [k \in DOMAIN evs2 |->
                    IF k \in up \/ k \notin DOMAIN storedOn.mem
                    THEN DayOf(now) ELSE storedOn.mem[k]]
    IN  [mem |-> mem2,
         file |-> IF saved
                  THEN [k \in DOMAIN fl2.map |->
                           IF k \in DOMAIN mem2 THEN mem2[k] ELSE storedOn.file[k]]
                  ELSE storedOn.file]
\* load: the events in memory are those of the file, stored when they were.
StampLoad(fl) ==
    [mem |-> [k \in DOMAIN Load(fl) |-> storedOn.file[k]], file |-> storedOn.file]
\* At construction the file is what an earlier run left: the process starts
\* with the first instant of its day, so its records are of the day before.
StampStart(evs, fl) ==
    [mem |-> [k \in DOMAIN evs |-> DayOf(now) - 1],
     file |-> [k \in DOMAIN fl.map |-> DayOf(now) - 1]]
\* A store filled by commands of the current day.
StampToday(evs, fl) ==
    [mem |-> [k \in DOMAIN evs |-> DayOf(now)],
     file |-> [k \in DOMAIN fl.map |-> DayOf(now)]]

\* What the events file may hold when the process starts.
InitFiles ==
    {[ok |-> TRUE, map |-> EmptyMap],
     [ok |-> TRUE, map |-> Upsert(EmptyMap, Event(T0900, 1, <<"a">>))],
     [ok |-> FALSE, map |-> Upsert(EmptyMap, Event(T0900, 1, <<"a">>))]}

\* The store and the scheduler are constructed; nothing is loaded yet.
Init ==
    /\ now = FirstInstant
    /\ events = EmptyMap
    /\ file \in InitFiles
    /\ storedOn = StampStart(events, file)
    /\ roleId = 1
    /\ pinged = NoPing
    /\ task = "none"
    /\ last_midnight = _utc_midnight_key(now)
    /\ tickedAt = NoTick
    /\ ticked = FALSE
    /\ held = NoEvent
    /\ tasks = <<>>
    /\ readyCount = 0
    /\ ctxFound = FALSE
    /\ lastCmd = NoCmd
    /\ pollLog = NoPoll

\* ---------------------------------------------------------------- actions
\* Time passes to the next instant: the gateway session is up, every countdown
\* task that is due has run, and a running polling loop has ticked at this
\* instant and is asleep again.
AdvanceClock ==
    /\ HasNext(now)
    /\ readyCount > 0
    /\ DueTasks = {}
    /\ task \in {"none", "dead"} \/ (task = "sleeping" /\ ticked)
    /\ now' = NextInstant(now)
    /\ ticked' = FALSE
    /\ UNCHANGED <<events, file, storedOn, roleId, pinged, task, last_midnight, tickedAt, held, tasks,
                   readyCount, ctxFound, lastCmd, pollLog>>

Ops == readyCount + lastCmd.seq
OpAllowed == Ops < MaxOps

\* UtcScheduler.start: create the loop task only when there is none.
Start(tk) == IF tk = "none" THEN "sleeping" ELSE tk

\* on_ready: load the store, start the scheduler, and recreate the countdown
\* tasks when the cog is registered and some guild has a channel to send to.
OnReady(chan) ==
    /\ OpAllowed
    /\ readyCount' = readyCount + 1
    /\ ctxFound' = chan
    /\ events' = Load(file)
    /\ storedOn' = StampLoad(file)
    /\ task' = Start(task)
    /\ tasks' = IF chan THEN tasks \o RecreateTasks(AllEvents(Load(file)), now)
                ELSE tasks
    /\ UNCHANGED <<now, file, roleId, pinged, last_midnight, tickedAt, ticked, held, lastCmd,
                   pollLog>>

Connected == readyCount > 0
CmdAllowed == Connected /\ OpAllowed
Cmd(op, result) ==
    [seq |-> lastCmd.seq + 1, op |-> op, result |-> result, arg |-> NoEvent, shown |-> <<>>]

\* !addrole
AddRole(id) ==
    /\ CmdAllowed
    /\ roleId' = id
    /\ lastCmd' = Cmd("addrole", "ok")
    /\ UNCHANGED <<now, pinged, events, file, storedOn, task, last_midnight, tickedAt, ticked, held, tasks,
                   readyCount, ctxFound, pollLog>>

\* !removerole
RemoveRole ==
    /\ CmdAllowed
    /\ roleId' = NoRole
    /\ lastCmd' = Cmd("removerole", IF roleId = NoRole THEN "none" ELSE "ok")
    /\ UNCHANGED <<now, pinged, events, file, storedOn, task, last_midnight, tickedAt, ticked, held, tasks,
                   readyCount, ctxFound, pollLog>>

\* Where a call of add_event that passed its checks may stop: nowhere, or at an
\* exception raised by the upsert's save, by fetch_member (other than NotFound,
\* which is caught) or by the confirmation send.
AddStops == {"none", "save", "fetch", "send"}

\* How add_event ends: rejected ("syntax", "badtime", "norole"), left by an
\* exception ("raised"), or run to its end ("added").
AddEventResult(time, desc, stop) ==
    IF time = NoArg \/ desc = NoArg THEN "syntax"
    ELSE IF ~_validate_hhmm(time) THEN "badtime"
    ELSE IF roleId = NoRole THEN "norole"
    ELSE IF stop # "none" THEN "raised"
    ELSE "added"

\* A variant of AddEventStores that does not look at the role configuration.
AddEventStoresAnyRole(time, desc) ==
    time # NoArg /\ desc # NoArg /\ _validate_hhmm(time)

AddEventStores(time, desc) ==
    time # NoArg /\ desc # NoArg /\ _validate_hhmm(time) /\ roleId # NoRole

\* !addevent time description
AddEvent(time, desc, stop) ==
    /\ CmdAllowed
    /\ lastCmd' = [Cmd("addevent", AddEventResult(time, desc, stop)) EXCEPT
                       !.arg = IF AddEventStores(time, desc)
                               THEN Event(time, roleId, desc) ELSE NoEvent]
    /\ IF AddEventStores(time, desc)
       THEN LET r == StorageUpsert(events, file, Event(time, roleId, Strip(desc)),
                                   IF stop = "save" THEN "partial" ELSE "ok")
            IN  /\ events' = r.events /\ file' = r.file
                /\ storedOn' = StampStore(r.events, r.file, {time}, TRUE)
       ELSE UNCHANGED <<events, file, storedOn>>
    /\ tasks' = IF AddEventResult(time, desc, stop) = "added"
                THEN tasks \o ThreeTasks(time, desc, now)
                ELSE tasks
    /\ UNCHANGED <<now, roleId, pinged, task, last_midnight, tickedAt, ticked, held, readyCount, ctxFound,
                   pollLog>>

\* !removeevent time
RemoveEvent(time, so) ==
    /\ CmdAllowed
    /\ IF _validate_hhmm(time)
       THEN LET r == StorageRemove(events, file, time, so)
            IN  /\ events' = r.events
                /\ file' = r.file
                /\ storedOn' = StampStore(r.events, r.file, {}, r.ret)
                /\ lastCmd' = Cmd("removeevent",
                                  IF r.raised THEN "raised"
                                  ELSE IF r.ret THEN "removed" ELSE "absent")
       ELSE /\ UNCHANGED <<events, file, storedOn>>
            /\ lastCmd' = Cmd("removeevent", "badtime")
    /\ UNCHANGED <<now, roleId, pinged, task, last_midnight, tickedAt, ticked, held, tasks,
                   readyCount, ctxFound, pollLog>>

\* !clearevents
ClearEvents(so) ==
    /\ CmdAllowed
    /\ LET r == StorageClear(events, file, so)
       IN  /\ events' = r.events
           /\ file' = r.file
           /\ storedOn' = StampStore(r.events, r.file, {}, TRUE)
           /\ lastCmd' = Cmd("clearevents", IF r.raised THEN "raised" ELSE "cleared")
    /\ UNCHANGED <<now, roleId, pinged, task, last_midnight, tickedAt, ticked, held, tasks,
                   readyCount, ctxFound, pollLog>>

\* str comparison, as sorted() applies it to the keys: by code point, a proper
\* prefix before the longer string.
ZeroCode == 48
ColonCode == 58
CodeOf(c) == IF IsDigit(c) THEN ZeroCode + DigitVal(c) ELSE ColonCode
RECURSIVE StrLess(_, _)
StrLess(a, b) ==
    IF a = <<>> THEN b # <<>>
    ELSE IF b = <<>> THEN FALSE
    ELSE IF Head(a) = Head(b) THEN StrLess(Tail(a), Tail(b))
    ELSE CodeOf(Head(a)) < CodeOf(Head(b))
\* sorted(self.storage.all(), key=lambda e: e.time_hhmm)
RECURSIVE SortedKeys(_)
SortedKeys(S) ==
    IF S = {} THEN <<>>
    ELSE LET k == CHOOSE x \in S : \A y \in S \ {x} : StrLess(x, y)
         IN  <<k>> \o SortedKeys(S \ {k})
SortedEvents(evs) ==
    [i \in 1..Cardinality(DOMAIN evs) |-> evs[SortedKeys(DOMAIN evs)[i]]]

\* !listevents: one line per event, in the order of SortedEvents. The command
\* reads the store only; a second listing in a row shows the same again.
ListEvents ==
    /\ Connected
    /\ lastCmd.op # "listevents"
    /\ lastCmd' = [Cmd("listevents", IF events = EmptyMap THEN "empty" ELSE "listed")
                     EXCEPT !.shown = SortedEvents(events)]
    /\ UNCHANGED <<now, events, file, storedOn, roleId, pinged, task, last_midnight, tickedAt,
                   ticked, held, tasks, readyCount, ctxFound, pollLog>>

\* ------------------------------------------------------ the polling loop
\* What one guild does to _fire_event: the message is sent ("sent"); the id is
\* no role and fetch_member raises NotFound ("notfound") or another error
\* ("fetcherr"); _pick_channel finds no channel ("nochannel"); channel.send
\* raises Forbidden, HTTPException or any other exception ("sendfail").
GuildOutcomes == {"sent", "notfound", "fetcherr", "nochannel", "sendfail"}
\* The outcomes the loop body handles with `continue`; the other leaves the loop
\* and _fire_event as an exception.
Propagates(o) == o = "fetcherr"

\* One pass of the body of `for guild in self.client.guilds`, for guild g.
FireGuild(log, g, out) ==
    [log EXCEPT !.reached = @ \cup {g}, !.raised = Propagates(out)]
\* _fire_event is entered for event ev.
FireStart(ev) == [time |-> ev.time_hhmm, reached |-> {}, raised |-> FALSE]

\* An exception that leaves _tick leaves _run (which catches CancelledError
\* only): the loop task is finished.
AfterTick(raised) == IF raised THEN "dead" ELSE "sleeping"

\* A variant of TickClear that clears when the day has not changed.
TickClearSameDay(evs, fl, key, last, so) ==
    IF key = last THEN StorageClear(evs, fl, so)
    ELSE [events |-> evs, file |-> fl, raised |-> FALSE, ret |-> FALSE]

\* The midnight check of _tick: the store after it.
TickClear(evs, fl, key, last, so) ==
    IF key # last THEN StorageClear(evs, fl, so)
    ELSE [events |-> evs, file |-> fl, raised |-> FALSE, ret |-> FALSE]

\* _tick up to its await: the midnight check, then the lookup of the current
\* HH:MM; a stored event with that key is held for delivery.
TickBegin(so) ==
    /\ task = "sleeping"
    /\ ~ticked
    /\ ticked' = TRUE
    /\ last_midnight' = _utc_midnight_key(now)
    /\ tickedAt' = now
    /\ LET r == TickClear(events, file, _utc_midnight_key(now), last_midnight, so)
           hhmm == _utc_now_hhmm(now)
       IN  /\ events' = r.events
           /\ file' = r.file
           /\ storedOn' = StampStore(r.events, r.file, {},
                                     _utc_midnight_key(now) # last_midnight)
           /\ IF r.raised
              THEN task' = AfterTick(TRUE) /\ held' = NoEvent /\ pollLog' = pollLog
              ELSE IF hhmm \in DOMAIN r.events
                   THEN /\ task' = "firing"
                        /\ held' = r.events[hhmm]
                        /\ pollLog' = FireStart(r.events[hhmm])
                   ELSE task' = AfterTick(FALSE) /\ held' = NoEvent /\ pollLog' = pollLog
    /\ UNCHANGED <<now, roleId, pinged, tasks, readyCount, ctxFound, lastCmd>>

\* The guild that a suspended _fire_event handles next.
NextGuild == Cardinality(pollLog.reached) + 1

\* _fire_event handles one more guild; an exception it does not catch ends the
\* loop, and after the last guild _tick goes on to remove(hhmm).
TickDeliver(out, so) ==
    /\ task = "firing"
    /\ pollLog' = FireGuild(pollLog, NextGuild, out)
    /\ IF Propagates(out)
       THEN task' = AfterTick(TRUE) /\ held' = NoEvent /\ UNCHANGED <<events, file, storedOn>>
       ELSE IF NextGuild < NumGuilds
       THEN UNCHANGED <<task, held, events, file, storedOn>>
       ELSE LET r == StorageRemove(events, file, held.time_hhmm, so)
            IN  /\ events' = r.events
                /\ file' = r.file
                /\ storedOn' = StampStore(r.events, r.file, {}, r.ret)
                /\ task' = AfterTick(r.raised)
                /\ held' = NoEvent
    /\ UNCHANGED <<now, roleId, pinged, last_midnight, tickedAt, ticked, tasks, readyCount, ctxFound, lastCmd>>

\* ------------------------------------------------- a countdown task wakes
\* How ping() ends: no role configured ("noconfig"); the message is sent
\* ("sent"); fetch_member raises NotFound, which ping catches ("notfound");
\* fetch_member or ctx.send raises another error, which leaves ping ("raised").
PingOutcomes == {"sent", "notfound", "raised"}
\* A variant of PingOutcome that goes on without a configured role.
PingOutcomeAlways(role, out) == out
PingOutcome(role, out) == IF role = NoRole THEN "noconfig" ELSE out

\* The id that ping() tries to resolve: role_id of get_roles_config() as it is
\* when ping() runs (NoRole: none is configured and ping() gives up).
PingTarget(role) == role

\* ping() reaches `if delta == timedelta(minutes=0)` and removes the event.
PingRemoves(delta, outcome) == delta = DeltaZero /\ outcome = "sent"

\* The sleep of countdown task i is over and ping() runs.
FireTask(i, out, so) ==
    /\ i \in DueTasks
    /\ \A j \in DueTasks : i <= j
    /\ tasks' = [tasks EXCEPT ![i].status = "done"]
    /\ pinged' = PingTarget(roleId)
    /\ IF PingRemoves(tasks[i].delta, PingOutcome(roleId, out))
       THEN LET r == StorageRemove(events, file, tasks[i].time, so)
            IN  /\ events' = r.events /\ file' = r.file
                /\ storedOn' = StampStore(r.events, r.file, {}, r.ret)
       ELSE UNCHANGED <<events, file, storedOn>>
    /\ UNCHANGED <<now, roleId, task, last_midnight, tickedAt, ticked, held, readyCount, ctxFound,
                   lastCmd, pollLog>>

\* ------------------------------------------------------------------- Next
Next ==
    \/ AdvanceClock
    \/ \E chan \in BOOLEAN : OnReady(chan)
    \/ \E id \in RoleIds : AddRole(id)
    \/ RemoveRole
    \/ \E time \in TimeInputs \cup {NoArg}, desc \in DescInputs \cup {NoArg},
          stop \in AddStops :
            AddEvent(time, desc, stop)
    \/ \E time \in TimeInputs, so \in SaveOutcomes : RemoveEvent(time, so)
    \/ \E so \in SaveOutcomes : ClearEvents(so)
    \/ \E so \in SaveOutcomes : TickBegin(so)
    \/ \E out \in GuildOutcomes, so \in SaveOutcomes : TickDeliver(out, so)
    \/ \E i \in 1..Len(tasks), out \in PingOutcomes, so \in SaveOutcomes :
            FireTask(i, out, so)

Spec == Init /\ [][Next]_vars

\* ------------------------------------------- registration at any instant
\* One !addevent, at any instant of day 1, for times around the day's edges:
\* the targets that _schedule_ping computes.
CalcTimes == {T0000, T0004, T0030, T0059, T0100, T0900, T900, T2359, T2400}
CalcInstants == DaySlots..(2 * DaySlots - 1)

\* The bot is connected, the loop has ticked, the store is empty.
CalcInit ==
    /\ now \in CalcInstants
    /\ events = EmptyMap
    /\ file = [ok |-> TRUE, map |-> EmptyMap]
    /\ storedOn = StampToday(events, file)
    /\ roleId = 1
    /\ pinged = NoPing
    /\ task = "sleeping"
    /\ last_midnight = _utc_midnight_key(now)
    /\ tickedAt = now
    /\ ticked = TRUE
    /\ held = NoEvent
    /\ tasks = <<>>
    /\ readyCount = 1
    /\ ctxFound = TRUE
    /\ lastCmd = NoCmd
    /\ pollLog = NoPoll

CalcNext ==
    \E time \in CalcTimes, desc \in DescInputs, stop \in AddStops :
        lastCmd = NoCmd /\ AddEvent(time, desc, stop)

CalcSpec == CalcInit /\ [][CalcNext]_vars

\* --------------------------------------------------- listing the store
\* The store holds events that earlier !addevent commands put there, and the
\* role may have been removed since; one !addevent and !listevents follow.
T1000 == <<"1", "0", ":", "0", "0">>
ListTimes == {T0100, T0900, T900, T1000, T2359}
\* Events the store holds before the commands.
MaxStored == 2
ListStores ==
    {[k \in S |-> Event(k, 1, <<"a">>)] :
        S \in {X \in SUBSET ListTimes : Cardinality(X) <= MaxStored}}

\* The bot is connected and found no channel to recreate tasks for.
ListInit ==
    /\ now = FirstInstant
    /\ events \in ListStores
    /\ file = [ok |-> TRUE, map |-> events]
    /\ storedOn = StampToday(events, file)
    /\ roleId \in {NoRole, 1}
    /\ pinged = NoPing
    /\ task = "sleeping"
    /\ last_midnight = _utc_midnight_key(now)
    /\ tickedAt = now
    /\ ticked = TRUE
    /\ held = NoEvent
    /\ tasks = <<>>
    /\ readyCount = 1
    /\ ctxFound = FALSE
    /\ lastCmd = NoCmd
    /\ pollLog = NoPoll

ListNext ==
    \/ \E time \in ListTimes \cup {T2400, NoArg}, desc \in DescInputs \cup {NoArg},
          stop \in AddStops :
            AddEvent(time, desc, stop)
    \/ ListEvents

ListSpec == ListInit /\ [][ListNext]_vars

\* ------------------------------------------- the cadence of the loop
\* The clock in steps of one slot around 09:00 of day 1: the loop's sleep of 30
\* seconds starts when _tick is over, and a delivery may take whole slots.
\* Slots one delivery by _fire_event may take.
MaxDelay == 3
LoopFrom == FirstInstant + (9 * MinutesPerHour - 2) * SlotsPerMinute
LoopUntil == LoopFrom + 4 * SlotsPerMinute + MaxDelay + 2

\* on_ready has loaded the store and the loop task is about to run its first
\* tick, at an instant in the two minutes before 09:00.
LoopInit ==
    /\ now \in LoopFrom..(LoopFrom + 2 * SlotsPerMinute - 1)
    /\ file \in InitFiles
    /\ events = Load(file)
    /\ storedOn = StampStart(events, file)
    /\ roleId = 1
    /\ pinged = NoPing
    /\ task = "sleeping"
    /\ last_midnight = _utc_midnight_key(now)
    /\ tickedAt = NoTick
    /\ ticked = FALSE
    /\ held = NoEvent
    /\ tasks = <<>>
    /\ readyCount = 1
    /\ ctxFound = FALSE
    /\ lastCmd = NoCmd
    /\ pollLog = NoPoll

\* await asyncio.sleep(30) of _run is over.
LoopSleep ==
    /\ task = "sleeping"
    /\ ticked
    /\ now < LoopUntil
    /\ now' = now + 1
    /\ ticked' = FALSE
    /\ UNCHANGED <<events, file, storedOn, roleId, pinged, task, last_midnight, tickedAt, held,
                   tasks, readyCount, ctxFound, lastCmd, pollLog>>

\* _fire_event waits for Discord (fetch_member, channel.send) for one slot.
DeliveryTakes ==
    /\ task = "firing"
    /\ now - tickedAt < MaxDelay
    /\ now' = now + 1
    /\ UNCHANGED <<events, file, storedOn, roleId, pinged, task, last_midnight, tickedAt, ticked,
                   held, tasks, readyCount, ctxFound, lastCmd, pollLog>>

LoopNext ==
    \/ LoopSleep
    \/ DeliveryTakes
    \/ \E so \in SaveOutcomes : TickBegin(so)
    \/ \E out \in GuildOutcomes, so \in SaveOutcomes : TickDeliver(out, so)

LoopSpec == LoopInit /\ [][LoopNext]_vars

\* ================================================================ claims
Sleeping == {i \in 1..Len(tasks) : tasks[i].status = "sleeping"}
\* Countdown task i leaves its sleep and runs ping() in this step.
Fires(i) == tasks[i].status = "sleeping" /\ tasks'[i].status = "done"
\* The polling loop runs the part of _tick before its await in this step.
TickStep == task = "sleeping" /\ ~ticked /\ ticked'

\* C1: when the zero-offset countdown task of an event has run, the store does
\* not hold the event's key, whatever the outcome of the notification attempt.
C1_ZeroOffsetRemoves ==
    [][\A i \in 1..Len(tasks) :
         (tasks[i].delta = DeltaZero /\ Fires(i)) => tasks[i].time \notin DOMAIN events']_vars

\* C2: no failure inside a tick ends the polling loop: once started, the loop
\* task is never finished.
C2_LoopSurvives == task # "dead"

\* C3: a tick that finds the clock in the minute of a stored event's time of
\* day fires that event.
C3_SafetyNet ==
    [][TickStep =>
         \A k \in DOMAIN events :
            ParseHHMM(k) = MinuteOfDay(now) => (task' = "firing" /\ held' = events[k])]_vars

\* C4: no failure in one guild leaves _fire_event as an exception, and every
\* guild is reached by a delivery that is over.
C4_EveryGuildAttempted ==
    /\ ~pollLog.raised
    /\ (pollLog # NoPoll /\ task # "firing") => pollLog.reached = Guilds

\* C5: the instant a countdown task waits for is not earlier than the instant
\* it is created at (under CalcSpec the clock stands at the creation instant).
C5_NoNegativeWait == \A i \in Sleeping : tasks[i].target >= now

\* C6 as stated: the target is today's date at T minus the offset, a day later
\* if and only if that instant is at or before now.
C6_RollsIfAtOrBeforeNow ==
    \A i \in Sleeping :
        LET base == BaseTime(tasks[i].time, tasks[i].delta, now)
        IN  /\ tasks[i].target \in {base, base + DaySlots}
            /\ tasks[i].target = base + DaySlots <=> base <= now

\* C6 as amended: a day later if and only if that instant is before now; an
\* instant equal to now is kept.
C6_RollsIfBeforeNow ==
    \A i \in Sleeping :
        LET base == BaseTime(tasks[i].time, tasks[i].delta, now)
        IN  /\ tasks[i].target \in {base, base + DaySlots}
            /\ tasks[i].target = base + DaySlots <=> base < now

\* A task whose computed instant equals now, kept on the same day.
C6_Witness ==
    \E i \in Sleeping :
        BaseTime(tasks[i].time, tasks[i].delta, now) = now /\ tasks[i].target = now

\* The three tasks of the registration, as slots: T, and the time of day each
\* target should have.
RegSlot == ParseHHMM(tasks[1].time) * SlotsPerMinute
OffsetSlots(j) == Offsets[j] * SlotsPerMinute
TimesOfDayRight ==
    \A j \in 1..Len(Offsets) :
        /\ tasks[j].delta = Offsets[j]
        /\ SlotOfDay(tasks[j].target) = (DaySlots + RegSlot - OffsetSlots(j)) % DaySlots
AllOnDay(d) == \A j \in 1..Len(Offsets) : DayOf(tasks[j].target) = d

\* C7 as stated: the targets are T-1h, T-5m and T, all today when now is at or
\* before T-1h, all tomorrow when T is past.
C7_SameDayAnyTime ==
    Sleeping # {} =>
        /\ TimesOfDayRight
        /\ SlotOfDay(now) <= RegSlot - OffsetSlots(1) => AllOnDay(DayOf(now))
        /\ RegSlot < SlotOfDay(now) => AllOnDay(DayOf(now) + 1)

\* C7 as amended: the same, for T at or after 01:00.
C7_SameDayFromOne ==
    (Sleeping # {} /\ RegSlot >= OffsetSlots(1)) =>
        /\ TimesOfDayRight
        /\ SlotOfDay(now) <= RegSlot - OffsetSlots(1) => AllOnDay(DayOf(now))
        /\ RegSlot < SlotOfDay(now) => AllOnDay(DayOf(now) + 1)

\* 09:00 registered at 08:00:00: 08:00, 08:55 and 09:00 of the same day.
C7_Witness ==
    /\ Len(tasks) = Len(Offsets)
    /\ tasks[1].time = T0900
    /\ MinuteOfDay(now) = 8 * MinutesPerHour
    /\ tasks[1].target = now
    /\ AllOnDay(DayOf(now))

\* C8: the first tick after the UTC date has changed leaves the store without
\* any event, and leaves every countdown task as it was.
C8_MidnightClear ==
    [][(TickStep /\ _utc_midnight_key(now) # last_midnight) =>
         (events' = EmptyMap /\ tasks' = tasks)]_vars

\* After the tick that follows midnight: the event of the last !addevent is
\* gone from the store, and its at-event-time task still waits for today's T.
C8_Witness ==
    /\ ticked /\ task = "sleeping" /\ last_midnight = DayOf(now)
    /\ lastCmd.op = "addevent" /\ lastCmd.result = "added"
    /\ file.ok /\ events = EmptyMap
    /\ LET z == tasks[Len(tasks)]
       IN  /\ z.delta = DeltaZero /\ z.status = "sleeping"
           /\ z.target > now /\ DayOf(z.target) = DayOf(now)

\* on_ready runs in this step.
ReadyStep == readyCount' = readyCount + 1
\* The tasks created in this step.
NewTasks == SubSeq(tasks', Len(tasks) + 1, Len(tasks'))
\* Every event of the store has, among the new tasks, one per offset.
ArmedFromStore ==
    /\ Len(NewTasks) = Len(Offsets) * Cardinality(DOMAIN events')
    /\ \A k \in DOMAIN events' : \A j \in 1..Len(Offsets) :
          \E i \in 1..Len(NewTasks) :
             /\ NewTasks[i].time = k
             /\ NewTasks[i].delta = Offsets[j]
             /\ NewTasks[i].description = events'[k].description
             /\ NewTasks[i].status = "sleeping"
\* The loop that start() creates has not run a tick when on_ready is over.
NoTickYet == task = "none" => (task' = "sleeping" /\ ~ticked')

\* C9 as stated: every on_ready arms three tasks per event of the loaded store,
\* before the loop's first tick.
C9_EveryReadyArms ==
    [][ReadyStep => (events' = Load(file) /\ ArmedFromStore /\ NoTickYet)]_vars

\* C9 as amended: every on_ready that finds a channel to send to does.
C9_ReadyWithChannelArms ==
    [][(ReadyStep /\ ctxFound') =>
         (events' = Load(file) /\ ArmedFromStore /\ NoTickYet)]_vars

\* Right after the first on_ready: the loaded event has its three tasks and the
\* loop has not ticked.
C9_Witness ==
    /\ readyCount = 1 /\ ctxFound /\ lastCmd = NoCmd
    /\ task = "sleeping" /\ ~ticked
    /\ events # EmptyMap
    /\ Len(tasks) = Len(Offsets) * Cardinality(DOMAIN events)
    /\ Sleeping = 1..Len(tasks)

\* C10: an !addevent that passes validation puts the event in the store and
\* creates exactly three tasks for it, one per offset.
C10_AddArmsThree ==
    [][(lastCmd'.seq # lastCmd.seq /\ lastCmd'.op = "addevent"
          /\ lastCmd'.result \notin {"syntax", "badtime", "norole"}) =>
         /\ Len(NewTasks) = Len(Offsets)
         /\ \A j \in 1..Len(Offsets) :
               /\ NewTasks[j].delta = Offsets[j]
               /\ NewTasks[j].time \in DOMAIN events'
               /\ NewTasks[j].time = NewTasks[1].time]_vars


\* A command is handled in this step.
CmdStep == lastCmd'.seq # lastCmd.seq
\* A mutating call of the store made by a command returns in this step.
CallReturns ==
    /\ CmdStep
    /\ \/ lastCmd'.op = "addevent" /\ lastCmd'.result = "added"
       \/ lastCmd'.op = "removeevent" /\ lastCmd'.result = "removed"
       \/ lastCmd'.op = "clearevents" /\ lastCmd'.result = "cleared"
\* The clear() of the midnight check returns in this step.
MidnightClearReturns ==
    TickStep /\ _utc_midnight_key(now) # last_midnight /\ task' # "dead"

\* C11: when a mutating call of the store has returned, the events file is
\* whole and holds the in-memory mapping, so load() gives that mapping back.
C11_SnapshotIsMemory ==
    [][(CallReturns \/ MidnightClearReturns) =>
         (file'.ok /\ file'.map = events' /\ Load(file') = events')]_vars

\* After on_ready has loaded one event and an !addevent has added a second:
\* the file holds both.
C11_Witness ==
    /\ lastCmd.op = "addevent" /\ lastCmd.result = "added"
    /\ Cardinality(DOMAIN events) = 2
    /\ file.ok /\ file.map = events

\* C12: load() ends without raising, and the mapping it leaves is either the
\* whole mapping of a file written to its end or empty.
C12_LoadAllOrNothing ==
    [][ReadyStep => (events' = EmptyMap \/ (file.ok /\ events' = file.map))]_vars

\* on_ready has loaded a file that is cut short after its first record: the
\* store is empty.
C12_Witness ==
    /\ readyCount = 1 /\ lastCmd = NoCmd /\ tickedAt = NoTick
    /\ ~file.ok /\ file.map # EmptyMap
    /\ events = EmptyMap

\* C13: no two events of the store are for the same time of day.
C13_OnePerTimeOfDay ==
    \A k1 \in DOMAIN events, k2 \in DOMAIN events :
        ParseHHMM(k1) = ParseHHMM(k2) => k1 = k2

\* !listevents is handled in this step.
ListStep == CmdStep /\ lastCmd'.op = "listevents"

\* C14: !listevents shows every stored event, earlier times of day before
\* later ones.
C14_ListedByTimeOfDay ==
    [][ListStep =>
         LET shown == lastCmd'.shown
         IN  /\ Len(shown) = Cardinality(DOMAIN events)
             /\ \A k \in DOMAIN events : \E i \in 1..Len(shown) : shown[i] = events[k]
             /\ \A i \in 1..Len(shown), j \in 1..Len(shown) :
                   i < j => ParseHHMM(shown[i].time_hhmm) <= ParseHHMM(shown[j].time_hhmm)]_vars

\* C15: a !listevents that directly follows a valid !addevent shows exactly one
\* event with the time given, and it has the role configured at the add and
\* the description given, trimmed.
C15_AddedThenListed ==
    [][(ListStep /\ lastCmd.op = "addevent" /\ lastCmd.arg # NoEvent) =>
         LET shown == lastCmd'.shown
             given == lastCmd.arg
             at == {i \in 1..Len(shown) : shown[i].time_hhmm = given.time_hhmm}
         IN  /\ Cardinality(at) = 1
             /\ \A i \in at :
                   shown[i] = Event(given.time_hhmm, given.role_id,
                                    Strip(given.description))]_vars

\* A listing after an !addevent that replaced a stored event: the event is
\* shown once, with the new description without its trailing space.
C15_Witness ==
    /\ lastCmd.op = "listevents" /\ lastCmd.result = "listed"
    /\ Len(tasks) = Len(Offsets)
    /\ Len(lastCmd.shown) = MaxStored
    /\ \E i \in 1..Len(lastCmd.shown) :
          /\ lastCmd.shown[i].time_hhmm = tasks[1].time
          /\ lastCmd.shown[i].description = Strip(tasks[1].description)
          /\ lastCmd.shown[i].description # tasks[1].description

\* What remove(time) gives in the current state, for every time string: on a
\* present key, when the save goes through, TRUE, and the key is gone from the
\* mapping and from the file; on an absent key FALSE, no exception, and
\* mapping and file as they were.
RemoveContract ==
    \A k \in TimeInputs :
        /\ k \in DOMAIN events =>
              LET r == StorageRemove(events, file, k, "ok")
              IN  /\ r.ret /\ ~r.raised
                  /\ r.events = Remove(events, k) /\ k \notin DOMAIN r.events
                  /\ r.file.ok /\ r.file.map = r.events
        /\ k \notin DOMAIN events =>
              \A so \in SaveOutcomes :
                 LET r == StorageRemove(events, file, k, so)
                 IN  ~r.ret /\ ~r.raised /\ r.events = events /\ r.file = file
\* The zero-offset task, or the loop after its delivery, removes an event that
\* the other has removed already: nothing changes and the loop goes on.
SecondRemoval ==
    /\ \A i \in 1..Len(tasks) :
          (Fires(i) /\ tasks[i].delta = DeltaZero /\ tasks[i].time \notin DOMAIN events) =>
             (events' = events /\ file' = file /\ task' = task)
    /\ (task = "firing" /\ task' # "firing" /\ ~pollLog'.raised
           /\ held.time_hhmm \notin DOMAIN events) =>
          (task' = "sleeping" /\ events' = events /\ file' = file)

\* C16: remove(time) on a present key returns true and the key is gone; on an
\* absent key it returns false and changes nothing; the second of two removals
\* of one event by the loop and the zero-offset task is a no-op.
C16_RemoveTwice == []RemoveContract /\ [][SecondRemoval]_vars

\* The zero-offset task removed the event first (its save was cut short, so the
\* file is broken), then the loop's removal found nothing: the loop is alive
\* and the file untouched.
C16_Witness ==
    /\ readyCount = 1 /\ lastCmd = NoCmd
    /\ task = "sleeping" /\ ticked
    /\ pollLog # NoPoll /\ ~pollLog.raised /\ pollLog.reached = Guilds
    /\ pollLog.time \notin DOMAIN events
    /\ ~file.ok
    /\ \E i \in 1..Len(tasks) :
          /\ tasks[i].time = pollLog.time /\ tasks[i].delta = DeltaZero
          /\ tasks[i].status = "done" /\ tasks[i].target = now

\* C17: an !addevent that is rejected changes neither the store nor the file
\* and creates no task.
C17_RejectedChangesNothing ==
    [][(CmdStep /\ lastCmd'.op = "addevent"
          /\ lastCmd'.result \in {"syntax", "badtime", "norole"}) =>
         (events' = events /\ file' = file /\ tasks' = tasks)]_vars

\* An !addevent with a valid time and a description, rejected because no role
\* is configured; the store still holds what it held.
C17_Witness ==
    /\ lastCmd.op = "addevent" /\ lastCmd.result = "norole"
    /\ roleId = NoRole
    /\ events # EmptyMap /\ file.map = events /\ tasks = <<>>

\* C18: the clock never passes the target of a sleeping task, and a task whose
\* event is not in the store runs ping() all the same and looks up the
\* configured role.
C18_NoRecheck ==
    [][/\ now' # now => \A i \in Sleeping : tasks[i].target > now
       /\ \A i \in 1..Len(tasks) :
             (Fires(i) /\ tasks[i].time \notin DOMAIN events) =>
                (tasks[i].target <= now /\ pinged' = roleId)]_vars

\* An event added late on one day is cleared at midnight; its first task has
\* run at its target on the next day, while its at-event-time task still waits.
C18_Witness ==
    /\ readyCount = 1 /\ lastCmd.seq = 1 /\ lastCmd.op = "addevent"
    /\ SlotOfDay(now) > 0 /\ last_midnight = DayOf(now)
    /\ roleId # NoRole /\ pinged = roleId
    /\ \E i \in 1..Len(tasks), j \in Sleeping :
          /\ tasks[i].status = "done" /\ tasks[i].target = now
          /\ tasks[i].time \notin DOMAIN events
          /\ tasks[j].time = tasks[i].time /\ tasks[j].delta = DeltaZero
          /\ tasks[j].target > now

\* C19: ping() uses the role that is configured when it runs, and when none is
\* configured it gives up: nothing is removed.
C19_RoleAtFireTime ==
    [][\A i \in 1..Len(tasks) :
          Fires(i) =>
             /\ pinged' = roleId
             /\ roleId = NoRole => (events' = events /\ file' = file)]_vars

\* The tasks were created at on_ready under role 1; !addrole set role 2 and a
\* task that ran afterwards used role 2.
C19_Witness ==
    /\ readyCount = 1 /\ lastCmd.seq = 1 /\ lastCmd.op = "addrole"
    /\ roleId = 2 /\ pinged = 2
    /\ \E i \in 1..Len(tasks) : tasks[i].status = "done"
    /\ \E k \in DOMAIN events : events[k].role_id = 1

\* C20: between two reads of the clock by _tick, no whole minute goes by.
C20_NoMinuteSkipped ==
    [][(TickStep /\ tickedAt # NoTick) =>
         now \div SlotsPerMinute <= tickedAt \div SlotsPerMinute + 1]_vars

\* _fire_event handles one more guild of the event that _tick holds.
DeliverStep == task = "firing" /\ pollLog' # pollLog

\* C21: a polling tick removes from the store only the event it has just
\* fired; an event that a command stored under the same key while the tick
\* was delivering is still in the store when the tick is over.
C21_RemovesOnlyFired ==
    [][DeliverStep =>
         \A k \in DOMAIN events \ DOMAIN events' : events[k] = held]_vars

\* C22: at most one countdown task is asleep per stored key and offset, after
\* any sequence of !addevent commands and on_ready runs.
C22_OneTaskPerOffset ==
    \A i \in Sleeping : \A j \in Sleeping :
        (tasks[i].time = tasks[j].time /\ tasks[i].delta = tasks[j].delta) => i = j

\* C23: once a polling tick has run on UTC day D, the store holds no event
\* that was stored on a day earlier than D, also when the process was
\* started on day D with the events file of an earlier run.
C23_DailyAcrossRestarts ==
    tickedAt # NoTick =>
        \A k \in DOMAIN events : storedOn.mem[k] >= DayOf(tickedAt)

\* The three tasks of the registration are due in the order of their offsets:
\* one hour before, five minutes before, at the event's time.
InOffsetOrder ==
    /\ \A j \in 1..Len(Offsets) : tasks[j].delta = Offsets[j]
    /\ \A j \in 1..(Len(Offsets) - 1) : tasks[j].target <= tasks[j + 1].target
\* The registration instant lies after T minus one hour and not after T.
RegisteredBetween ==
    /\ BaseTime(tasks[1].time, DeltaHour, now) < now
    /\ now <= BaseTime(tasks[1].time, DeltaZero, now)

\* C24 as stated: the three tasks of a registration fire in the order 1 hour
\* before, 5 minutes before, at event time, for every registration instant.
C24_FiresInOffsetOrder == Sleeping # {} => InOffsetOrder

\* C24 as amended: they fire in that order exactly when the registration
\* instant is at or before T minus one hour, or after T; in between, the
\* one-hour task is due a day later, after the at-event-time task.
C24_InOrderUnlessBetween ==
    Sleeping # {} =>
        /\ InOffsetOrder <=> ~RegisteredBetween
        /\ RegisteredBetween => tasks[1].target > tasks[Len(Offsets)].target

\* 09:00 registered at 10:00: 08:00, 08:55 and 09:00 of the next day, in order.
C24_Witness ==
    /\ Len(tasks) = Len(Offsets)
    /\ tasks[1].time = T0900
    /\ MinuteOfDay(now) = 10 * MinutesPerHour
    /\ ~RegisteredBetween
    /\ InOffsetOrder
    /\ AllOnDay(DayOf(now) + 1)

\* C25: after every on_ready, which calls start(), a polling loop is running:
\* start() creates the loop when there is none and never a second one.
C25_LoopRunsAfterStart ==
    [][ReadyStep => task' \in {"sleeping", "firing"}]_vars

====
